---- MODULE Spec2Model ----
(***************************************************************************)
(* StudyPal backend: the chunker (utils.split_text), the ingestion         *)
(* pipeline and the query engine (rag.RAGSystem) and the HTTP handlers of  *)
(* main.py that call them.                                                 *)
(*                                                                         *)
(* A Python str is a sequence of one-character strings; None is the empty  *)
(* tuple and a present Optional value v is <<v>>.                          *)
(***************************************************************************)
EXTENDS Integers, Sequences, FiniteSets, TLC

VARIABLES
    users,          \* rows of the users table, in id order
    documents,      \* rows of the documents table, in id order
    store,          \* the Chroma collection: chunk id -> [text, metadata]
    response,       \* what the last request answered
    call,           \* the last ingest_document / query call: arguments and result
    text,           \* split_text: the text argument
    chunk_size,     \* split_text: the chunk_size argument
    chunk_overlap,  \* split_text: the chunk_overlap argument
    chunks,         \* split_text: the returned list
    pc              \* "start" before a call made on its own, "done" after it

vars == <<users, documents, store, response, call,
          text, chunk_size, chunk_overlap, chunks, pc>>

appVars == <<users, documents, store, response, call>>
splitVars == <<text, chunk_size, chunk_overlap, chunks, pc>>

-----------------------------------------------------------------------------
(* Bounds of the model *)

MaxLen == 5          \* longest text handed to split_text on its own
MaxChunkSize == 5    \* largest chunk_size handed to split_text on its own
MaxOverlap == 2      \* largest chunk_overlap handed to split_text on its own
MaxUploads == 2      \* upload requests that reach the chunk store

-----------------------------------------------------------------------------
(* Python strings and lists *)

None == <<>>
Some(v) == <<v>>

Whitespace == {" ", "\n"}
IsSpace(c) == c \in Whitespace

Digits == <<"0", "1", "2", "3", "4", "5", "6", "7", "8", "9">>

\* str(n) of a non-negative int, as an f-string formats it
RECURSIVE Str(_)
Str(n) == IF n < 10 THEN <<Digits[n + 1]>> ELSE Str(n \div 10) \o <<Digits[(n % 10) + 1]>>

\* mutant of PySliceFrom: seq[:-start], the head of the list instead of its tail
PySliceHead(seq, start) ==
    SubSeq(seq, 1, IF 0 - start > Len(seq) THEN Len(seq) ELSE 0 - start)

\* seq[start:] with Python's rule for a negative or too large start
PySliceFrom(seq, start) ==
    LET n == Len(seq)
        lo == IF start < 0 THEN (IF n + start < 0 THEN 0 ELSE n + start)
              ELSE (IF start > n THEN n ELSE start)
    IN  SubSeq(seq, lo + 1, n)

\* sep.join(parts)
RECURSIVE Join(_, _)
Join(parts, sep) ==
    IF parts = <<>> THEN <<>>
    ELSE IF Len(parts) = 1 THEN parts[1]
    ELSE parts[1] \o sep \o Join(Tail(parts), sep)

\* indices at which a whitespace-free run of text starts
WordStarts(s) ==
    {i \in DOMAIN s : ~IsSpace(s[i]) /\ (i = 1 \/ IsSpace(s[i - 1]))}

\* the last index of the run that starts at i
WordEnd(s, i) ==
    CHOOSE e \in i..Len(s) :
        /\ e = Len(s) \/ IsSpace(s[e + 1])
        /\ \A j \in i..e : ~IsSpace(s[j])

RECURSIVE WordsAt(_, _)
WordsAt(s, starts) ==
    IF starts = {} THEN <<>>
    ELSE LET i == CHOOSE x \in starts : \A y \in starts : x <= y
         IN  <<SubSeq(s, i, WordEnd(s, i))>> \o WordsAt(s, starts \ {i})

\* s.split(): the maximal whitespace-free runs of s, in order
StrSplit(s) == WordsAt(s, WordStarts(s))

\* sum(len(w) + 1 for w in ws)
RECURSIVE SumLen(_)
SumLen(ws) == IF ws = <<>> THEN 0 ELSE Len(ws[1]) + 1 + SumLen(Tail(ws))

-----------------------------------------------------------------------------
(* utils.split_text *)

\* mutant of SplitLoop: the budget test is < where the code has <=
RECURSIVE SplitLoopStrict(_, _, _, _, _, _, _)
SplitLoopStrict(words, i, size, overlap, out, current_chunk, current_length) ==
    IF i > Len(words)
    THEN IF current_chunk # <<>> THEN Append(out, Join(current_chunk, <<" ">>)) ELSE out
    ELSE LET word == words[i] IN
         IF current_length + Len(word) + 1 < size
         THEN SplitLoopStrict(words, i + 1, size, overlap, out,
                              Append(current_chunk, word), current_length + Len(word) + 1)
         ELSE LET next == PySliceFrom(current_chunk, 0 - overlap) \o <<word>>
              IN  SplitLoopStrict(words, i + 1, size, overlap,
                                  Append(out, Join(current_chunk, <<" ">>)),
                                  next, SumLen(next))

\* the for loop over words[i..], then the trailing flush
RECURSIVE SplitLoop(_, _, _, _, _, _, _)
SplitLoop(words, i, size, overlap, out, current_chunk, current_length) ==
    IF i > Len(words)
    THEN IF current_chunk # <<>> THEN Append(out, Join(current_chunk, <<" ">>)) ELSE out
    ELSE LET word == words[i] IN
         IF current_length + Len(word) + 1 <= size
         THEN SplitLoop(words, i + 1, size, overlap, out,
                        Append(current_chunk, word), current_length + Len(word) + 1)
         ELSE LET next == PySliceFrom(current_chunk, 0 - overlap) \o <<word>>
              IN  SplitLoop(words, i + 1, size, overlap,
                            Append(out, Join(current_chunk, <<" ">>)),
                            next, SumLen(next))

split_text(t, size, overlap) == SplitLoop(StrSplit(t), 1, size, overlap, <<>>, <<>>, 0)

-----------------------------------------------------------------------------
(* split_text called on its own *)

Alphabet == {"a", "b", " ", "\n"}

RECURSIVE SeqsUpTo(_, _)
SeqsUpTo(S, n) ==
    IF n = 0 THEN {<<>>}
    ELSE LET shorter == SeqsUpTo(S, n - 1)
         IN  shorter \cup {Append(s, c) : s \in {x \in shorter : Len(x) = n - 1}, c \in S}

Texts == SeqsUpTo(Alphabet, MaxLen)

AppIdle ==
    /\ users = <<>>
    /\ documents = <<>>
    /\ store = <<>>
    /\ response = [op |-> "none"]
    /\ call = [op |-> "none"]

InitSplit ==
    /\ AppIdle
    /\ text \in Texts
    /\ chunk_size \in 1..MaxChunkSize
    /\ chunk_overlap \in 0..MaxOverlap
    /\ chunks = <<>>
    /\ pc = "start"

CallSplit ==
    /\ pc = "start"
    /\ chunks' = split_text(text, chunk_size, chunk_overlap)
    /\ pc' = "done"
    /\ UNCHANGED <<text, chunk_size, chunk_overlap>>
    /\ UNCHANGED appVars

NextSplit == CallSplit

SpecSplit == InitSplit /\ [][NextSplit]_vars

-----------------------------------------------------------------------------
(* Claims about split_text, under SpecSplit *)

Words(c) == StrSplit(c)
Normalized(t) == Join(Words(t), <<" ">>)

\* C2 as stated: a text shorter than chunk_size comes back as exactly one
\* chunk, its words joined by single spaces.
C2_AsStated ==
    (pc = "done" /\ Len(text) < chunk_size)
        => (Len(chunks) = 1 /\ chunks[1] = Normalized(text))

\* C2 as amended: a text shorter than chunk_size that holds at least one word
\* comes back as exactly one chunk, its words joined by single spaces.
C2_OneChunk ==
    (pc = "done" /\ Len(text) < chunk_size /\ Words(text) # <<>>)
        => (Len(chunks) = 1 /\ chunks[1] = Normalized(text))

C2_Witness ==
    /\ pc = "done"
    /\ Len(text) < chunk_size
    /\ Len(Words(text)) >= 2
    /\ Len(chunks) = 1
    /\ chunks[1] # text

\* C3: when split_text returns two chunks or more, every chunk after the
\* first begins with the last chunk_overlap words of the chunk before it, or
\* with all of that chunk's words when it has fewer than chunk_overlap.
C3_Overlap ==
    (pc = "done" /\ Len(chunks) >= 2)
        => \A i \in 2..Len(chunks) :
              LET prev == Words(chunks[i - 1])
                  cur == Words(chunks[i])
                  k == IF Len(prev) < chunk_overlap THEN Len(prev) ELSE chunk_overlap
              IN  /\ Len(cur) >= k
                  /\ SubSeq(cur, 1, k) = SubSeq(prev, Len(prev) - k + 1, Len(prev))

C3_Witness ==
    /\ pc = "done"
    /\ Len(chunks) >= 2
    /\ chunk_overlap = 1
    /\ Len(Words(chunks[1])) = 2
    /\ Words(chunks[1])[1] # Words(chunks[1])[2]
    /\ Words(chunks[2])[1] = Words(chunks[1])[2]

\* C4: every chunk split_text returns is at most chunk_size characters long.
C4_Bounded ==
    pc = "done" => \A i \in DOMAIN chunks : Len(chunks[i]) <= chunk_size

\* C14: no chunk split_text returns is the empty string: every chunk holds at
\* least one word of the text, also when the first word is longer than
\* chunk_size.
C14_NoEmptyChunk ==
    pc = "done"
        => \A i \in DOMAIN chunks :
              /\ chunks[i] # <<>>
              /\ \E w \in DOMAIN Words(text) : Words(text)[w] \in
                    {Words(chunks[i])[j] : j \in DOMAIN Words(chunks[i])}

-----------------------------------------------------------------------------
(* Requests: the values a client can send *)

chunk_size_default == 1000
chunk_overlap_default == 200
retriever_k == 4

Usernames == {"u", "v"}

Subjects == {<<"a">>, <<"a", "_", "1">>}
Filenames == {<<"1", "_", "b">>, <<"d", "/", "b">>}
Semesters == {1}

\* a text that fits one chunk, and one whose second word of 999 letters does not
ShortText == <<"a", " ", "b">>
LongText == [i \in 1..1001 |-> IF i = 1 THEN "b" ELSE IF i = 2 THEN " " ELSE "a"]
UploadTexts == {ShortText, LongText}

\* what a parser finds in a file: its text, or nothing it can read
Readable(t) == [readable |-> TRUE, text |-> t]
Unreadable == [readable |-> FALSE, text |-> <<>>]

QuerySemesters == {None, Some(0), Some(1), Some(2)}
QuerySubjects == {None, Some(<<>>), Some(<<"a">>)}

LLMAnswers == {"generated answer"}
FallbackAnswer == "Sorry, I encountered an error processing your request."

-----------------------------------------------------------------------------
(* utils.extract_text_from_file, os.path *)

\* os.path.basename(path): what follows the last "/"
Basename(path) ==
    LET slashes == {i \in DOMAIN path : path[i] = "/"}
    IN  IF slashes = {} THEN path
        ELSE SubSeq(path, (CHOOSE i \in slashes : \A j \in slashes : j <= i) + 1, Len(path))

\* os.path.dirname(path): what precedes the last "/"
Dirname(path) ==
    LET slashes == {i \in DOMAIN path : path[i] = "/"}
    IN  IF slashes = {} THEN <<>>
        ELSE SubSeq(path, 1, (CHOOSE i \in slashes : \A j \in slashes : j <= i) - 1)

UploadsDir == <<"u", "p", "l", "o", "a", "d", "s">>

\* every branch of extract_text_from_file hands the file to a parser, which
\* returns the file's text or raises
extract_text_from_file(content) ==
    IF content.readable THEN [raised |-> FALSE, text |-> content.text]
    ELSE [raised |-> TRUE, text |-> <<>>]

\* split_text(text) with its default arguments; the table only saves
\* recomputing the chunks of the texts the requests carry
DefaultChunkTable ==
    [t \in UploadTexts |-> split_text(t, chunk_size_default, chunk_overlap_default)]
split_text_default(t) ==
    IF t \in DOMAIN DefaultChunkTable THEN DefaultChunkTable[t]
    ELSE split_text(t, chunk_size_default, chunk_overlap_default)

-----------------------------------------------------------------------------
(* rag.RAGSystem.ingest_document *)

\* the keys the f-string of line 59 reads: a KeyError when one is missing
DocIdKeys == {"user_id", "semester", "subject"}

\* mutant of DocId: the chunk index is left out of the identifier
DocIdNoIndex(metadata, file_path, i) ==
    Str(metadata["user_id"]) \o <<"_">> \o Str(metadata["semester"]) \o <<"_">>
        \o metadata["subject"] \o <<"_">> \o Basename(file_path)

\* mutant of DocId: the identifier names the document but not its owner
DocIdNoOwner(metadata, file_path, i) ==
    Str(metadata["semester"]) \o <<"_">> \o metadata["subject"] \o <<"_">>
        \o metadata["title"] \o <<"_">> \o Str(i)

\* the f-string of line 59
DocId(metadata, file_path, i) ==
    Str(metadata["user_id"]) \o <<"_">> \o Str(metadata["semester"]) \o <<"_">>
        \o metadata["subject"] \o <<"_">> \o Basename(file_path) \o <<"_">> \o Str(i)

\* Chroma.add_texts: one upsert of the whole batch, a later entry of the
\* batch winning over an earlier one with the same id
AddTexts(st, texts, metadatas, ids) ==
    IF ids = <<>> THEN st
    ELSE LET new == {ids[i] : i \in DOMAIN ids}
             last(id) == CHOOSE i \in DOMAIN ids :
                            ids[i] = id /\ \A j \in DOMAIN ids : ids[j] = id => j <= i
         IN  [id \in (DOMAIN st) \cup new |->
                IF id \in new
                THEN [text |-> texts[last(id)], metadata |-> metadatas[last(id)]]
                ELSE st[id]]

\* mutant of IngestFailed: the exception leaves ingest_document
IngestReraised(st) ==
    [raised |-> TRUE, result |-> FALSE, store |-> st, batches |-> <<>>]

\* the except branch, lines 70-72
IngestFailed(st) ==
    [raised |-> FALSE, result |-> FALSE, store |-> st, batches |-> <<>>]

\* ingest_document; storeOk is whether add_texts returns rather than raises
ingest_document(st, file_path, content, metadata, storeOk) ==
    LET extracted == extract_text_from_file(content) IN
    IF extracted.raised THEN IngestFailed(st)
    ELSE LET cs == split_text_default(extracted.text) IN
         IF cs # <<>> /\ ~(DocIdKeys \subseteq DOMAIN metadata) THEN IngestFailed(st)
         ELSE LET ids == [i \in 1..Len(cs) |-> DocId(metadata, file_path, i - 1)]
                  metadatas == [i \in 1..Len(cs) |-> metadata]
              IN  IF ~storeOk THEN IngestFailed(st)
                  ELSE [raised |-> FALSE, result |-> TRUE,
                        store |-> AddTexts(st, cs, metadatas, ids),
                        batches |-> <<[texts |-> cs, metadatas |-> metadatas, ids |-> ids]>>]

-----------------------------------------------------------------------------
(* rag.RAGSystem.query *)

\* Python truthiness of an Optional[int] and of an Optional[str]
TruthyInt(o) == o # None /\ o[1] # 0
TruthyStr(o) == o # None /\ o[1] # <<>>

\* mutant of BuildFilter: the tests are "is not None" where the code tests truth
BuildFilterNotNone(user_id, semester, subject) ==
    LET keys == {"user_id"} \cup (IF semester # None THEN {"semester"} ELSE {})
                            \cup (IF subject # None THEN {"subject"} ELSE {})
    IN  [k \in keys |-> CASE k = "user_id" -> user_id
                          [] k = "semester" -> semester[1]
                          [] k = "subject" -> subject[1]]

\* lines 76-80
BuildFilter(user_id, semester, subject) ==
    LET keys == {"user_id"} \cup (IF TruthyInt(semester) THEN {"semester"} ELSE {})
                            \cup (IF TruthyStr(subject) THEN {"subject"} ELSE {})
    IN  [k \in keys |-> CASE k = "user_id" -> user_id
                          [] k = "semester" -> semester[1]
                          [] k = "subject" -> subject[1]]

\* the chunks an exact-match metadata filter lets through
Matching(st, filter) ==
    {id \in DOMAIN st :
        \A k \in DOMAIN filter :
            k \in DOMAIN st[id].metadata /\ st[id].metadata[k] = filter[k]}

\* mutant of Retrievals: the retriever hands back every matching chunk
RetrievalsAll(st, filter, k) == {Matching(st, filter)}

\* what the retriever may hand back: the k nearest of the matching chunks,
\* all of them when there are at most k (the ranking is the embedding's)
Retrievals(st, filter, k) ==
    LET m == Matching(st, filter)
    IN  IF Cardinality(m) <= k THEN {m}
        ELSE {r \in SUBSET m : Cardinality(r) = k}

\* line 94: the distinct titles of the retrieved chunks
Sources(st, retrieved) == {st[id].metadata["title"] : id \in retrieved}

\* mutant of QueryFallback: the exception leaves query()
QueryReraised ==
    [raised |-> TRUE, answer |-> FallbackAnswer, sources |-> {}]

\* the except branch, lines 100-105
QueryFallback ==
    [raised |-> FALSE, answer |-> FallbackAnswer, sources |-> {}]

\* query(); ok is whether every step of the try body returned, retrieved
\* the retriever's choice and generated the model's answer
query(st, filter, retrieved, generated, ok) ==
    IF ~ok THEN QueryFallback
    ELSE [raised |-> FALSE, answer |-> generated, sources |-> Sources(st, retrieved)]

-----------------------------------------------------------------------------
(* main.py: the handlers *)

Init ==
    /\ users = <<>>
    /\ documents = <<>>
    /\ store = <<>>
    /\ response = [op |-> "none"]
    /\ call = [op |-> "none"]
    /\ text = <<>>
    /\ chunk_size = chunk_size_default
    /\ chunk_overlap = chunk_overlap_default
    /\ chunks = <<>>
    /\ pc = "idle"

\* create_user, lines 114-139; commitOk is whether db.commit() returns
\* (the unique index on email, which the rows here do not keep, can fail it)
CreateUser ==
    \E username \in Usernames, commitOk \in BOOLEAN :
        /\ IF \E i \in DOMAIN users : users[i].username = username
           THEN \* the HTTPException(400) is raised inside the try and caught by
                \* its except Exception, which raises HTTPException(500, str(e))
                /\ response' = [op |-> "create_user", status |-> 500,
                                request |-> [username |-> username],
                                detail |-> "400: Username already registered"]
                /\ users' = users
           ELSE IF ~commitOk
           THEN /\ response' = [op |-> "create_user", status |-> 500,
                                request |-> [username |-> username],
                                detail |-> "commit failed"]
                /\ users' = users
           ELSE \* the row is committed; the returned row has no is_active, which
                \* response_model=schemas.User requires, so the reply fails validation
                /\ users' = Append(users, [id |-> Len(users) + 1, username |-> username])
                /\ response' = [op |-> "create_user", status |-> 500,
                                request |-> [username |-> username],
                                detail |-> "Internal Server Error"]
        /\ call' = [op |-> "none"]
        /\ UNCHANGED <<documents, store>>
        /\ UNCHANGED splitVars

\* file_location of line 150
FileLocation(current_user, filename) ==
    UploadsDir \o <<"/">> \o Str(current_user.id) \o <<"_">> \o filename

\* metadata of lines 157-162
UploadMetadata(current_user, filename, semester, subject) ==
    [user_id |-> current_user.id, semester |-> semester,
     subject |-> subject, title |-> filename]

\* mutant of DocumentRows: the row is added whatever ingest_document returned
DocumentRowsAlways(docs, success, row) ==
    Append(docs, [id |-> Len(docs) + 1] @@ row)

\* lines 166-178: the Document row is added once ingest_document returned True
DocumentRows(docs, success, row) ==
    IF ~success THEN docs ELSE Append(docs, [id |-> Len(docs) + 1] @@ row)

\* upload_document, lines 141-181, for one request. The copy saved under
\* uploads/ is read back by ingest_document within the request and by nothing
\* else: it is the request's content here.
upload_document(current_user, filename, semester, subject) ==
    LET file_location == FileLocation(current_user, filename)
        metadata == UploadMetadata(current_user, filename, semester, subject)
    IN  /\ Len(documents) < MaxUploads
        /\ users' = users
        /\ UNCHANGED splitVars
        /\ IF Dirname(file_location) # UploadsDir
           THEN \* open() finds no such directory and nothing catches it
                /\ response' = [op |-> "upload", caller |-> current_user.id,
                                status |-> 500, body |-> "Internal Server Error"]
                /\ call' = [op |-> "none"]
                /\ UNCHANGED <<documents, store>>
           ELSE \E content \in {Readable(t) : t \in UploadTexts} \cup {Unreadable},
                   storeOk \in BOOLEAN :
                LET r == ingest_document(store, file_location, content, metadata, storeOk)
                    row == [title |-> filename, semester |-> semester,
                            subject |-> subject, file_path |-> file_location,
                            owner_id |-> current_user.id]
                IN  /\ call' = IF r.result
                               THEN [op |-> "ingest", raised |-> r.raised,
                                     result |-> r.result, file_path |-> file_location,
                                     metadata |-> metadata, ids |-> r.batches[1].ids]
                               ELSE [op |-> "ingest", raised |-> r.raised,
                                     result |-> r.result]
                    /\ store' = r.store
                    /\ documents' = DocumentRows(documents, r.result, row)
                    /\ response' =
                          IF r.raised
                          THEN [op |-> "upload", caller |-> current_user.id,
                                status |-> 500, body |-> "Internal Server Error"]
                          ELSE IF ~r.result
                          THEN [op |-> "upload", caller |-> current_user.id,
                                status |-> 500, body |-> "Failed to process document"]
                          ELSE [op |-> "upload", caller |-> current_user.id,
                                status |-> 200,
                                request |-> [filename |-> filename,
                                             semester |-> semester,
                                             subject |-> subject],
                                body |-> [filename |-> filename, success |-> TRUE]]

Upload ==
    \E u \in DOMAIN users, filename \in Filenames, semester \in Semesters,
       subject \in Subjects :
        upload_document(users[u], filename, semester, subject)

\* mutant of ChatScopeUser: the owner is read from the request body
ChatScopeUserFromBody(current_user, chat_request) == chat_request.user_id

\* the owner whose chunks chat_with_documents searches, line 198
ChatScopeUser(current_user, chat_request) == current_user.id

\* chat_with_documents, lines 194-205. When a step of query()'s try body
\* raises, the answer is the same whatever the request carried.
Chat ==
    \E u \in DOMAIN users :
        LET current_user == users[u]
            Answer(r) ==
                IF r.raised
                THEN [op |-> "chat", caller |-> current_user.id,
                      status |-> 500, body |-> "Internal Server Error"]
                ELSE [op |-> "chat", caller |-> current_user.id, status |-> 200,
                      body |-> [answer |-> r.answer, sources |-> r.sources]]
        IN  /\ UNCHANGED <<users, documents, store>>
            /\ UNCHANGED splitVars
            /\ \/ \E body_user_id \in 1..2, semester \in QuerySemesters,
                     subject \in QuerySubjects, generated \in LLMAnswers :
                    LET chat_request == [user_id |-> body_user_id, semester |-> semester,
                                         subject |-> subject]
                        user_id == ChatScopeUser(current_user, chat_request)
                        filter == BuildFilter(user_id, chat_request.semester,
                                              chat_request.subject)
                    IN  \E retrieved \in Retrievals(store, filter, retriever_k) :
                            LET r == query(store, filter, retrieved, generated, TRUE)
                            IN  /\ call' = [op |-> "query", raised |-> r.raised, ok |-> TRUE,
                                            semester |-> semester, subject |-> subject,
                                            filter |-> filter, retrieved |-> retrieved]
                                /\ response' = Answer(r)
               \/ LET r == query(store, BuildFilter(current_user.id, None, None), {},
                                 FallbackAnswer, FALSE)
                  IN  /\ call' = [op |-> "query", raised |-> r.raised, ok |-> FALSE]
                      /\ response' = Answer(r)

Next == CreateUser \/ Upload \/ Chat

Spec == Init /\ [][Next]_vars

-----------------------------------------------------------------------------
(* Registrations and uploads, with the file names a client may choose *)

PlainFilenames == {<<"b">>, <<"1", "_", "b">>}

UploadNamed ==
    \E u \in DOMAIN users, filename \in PlainFilenames, semester \in Semesters,
       subject \in Subjects :
        upload_document(users[u], filename, semester, subject)

NextUploads == CreateUser \/ UploadNamed

SpecUploads == Init /\ [][NextUploads]_vars

-----------------------------------------------------------------------------
(* ingest_document called on its own *)

IngestTexts == UploadTexts \cup {<<>>}
IngestContents == {Readable(t) : t \in IngestTexts} \cup {Unreadable}
IngestPaths == {FileLocation([id |-> n], <<"b">>) : n \in 1..2}

FullMetadata ==
    [user_id : 1..2, semester : Semesters, subject : Subjects, title : {<<"b">>}]
Without(metadata, key) == [k \in (DOMAIN metadata) \ {key} |-> metadata[k]]
IngestMetadata ==
    FullMetadata \cup {Without(m, k) : m \in FullMetadata, k \in DOMAIN UploadMetadata([id |-> 1], <<>>, 1, <<>>)}

\* the chunk store before the call: empty, or holding the chunk of an upload
IngestStores ==
    {<<>>,
     ingest_document(<<>>, FileLocation([id |-> 1], <<"b">>), Readable(ShortText),
                     UploadMetadata([id |-> 1], <<"b">>, 1, <<"a">>), TRUE).store}

InitIngest ==
    /\ users = <<>>
    /\ documents = <<>>
    /\ store \in IngestStores
    /\ response = [op |-> "none"]
    /\ call \in [op : {"ingest_args"}, file_path : IngestPaths, content : IngestContents,
                 metadata : IngestMetadata, storeOk : BOOLEAN]
    /\ text = <<>>
    /\ chunk_size = chunk_size_default
    /\ chunk_overlap = chunk_overlap_default
    /\ chunks = <<>>
    /\ pc = "start"

CallIngest ==
    /\ pc = "start"
    /\ LET r == ingest_document(store, call.file_path, call.content, call.metadata,
                                call.storeOk)
       IN  /\ store' = r.store
           /\ call' = [op |-> "ingest_done", args |-> call, before |-> store,
                       raised |-> r.raised, result |-> r.result, batches |-> r.batches]
    /\ pc' = "done"
    /\ UNCHANGED <<users, documents, response, text, chunk_size, chunk_overlap, chunks>>

NextIngest == CallIngest

SpecIngest == InitIngest /\ [][NextIngest]_vars

-----------------------------------------------------------------------------
(* query called on its own *)

\* result["result"]: the text the model generated, which may be empty
LLMOutputs == LLMAnswers \cup {""}

\* list(s) of a Python set s: its elements once each, in an order the set decides
PyList(S) ==
    {l \in [1..Cardinality(S) -> S] : \A i, j \in DOMAIN l : i # j => l[i] # l[j]}

\* the chunk store before the call: empty, after one upload of a two-chunk
\* text, and after four uploads (three of one user, five chunks, two titles)
StoreAfterOne ==
    ingest_document(<<>>, FileLocation([id |-> 1], <<"b">>), Readable(LongText),
                    UploadMetadata([id |-> 1], <<"b">>, 1, <<"a">>), TRUE).store
StoreAfterTwo ==
    ingest_document(StoreAfterOne, FileLocation([id |-> 1], <<"1", "_", "b">>),
                    Readable(LongText),
                    UploadMetadata([id |-> 1], <<"1", "_", "b">>, 1, <<"a">>), TRUE).store
StoreAfterThree ==
    ingest_document(StoreAfterTwo, FileLocation([id |-> 1], <<"1", "_", "b">>),
                    Readable(ShortText),
                    UploadMetadata([id |-> 1], <<"1", "_", "b">>, 1, <<"a", "_", "1">>),
                    TRUE).store
StoreAfterFour ==
    ingest_document(StoreAfterThree, FileLocation([id |-> 2], <<"b">>), Readable(ShortText),
                    UploadMetadata([id |-> 2], <<"b">>, 1, <<"a">>), TRUE).store
QueryStores == {<<>>, StoreAfterOne, StoreAfterFour}

InitQuery ==
    /\ users = <<>>
    /\ documents = <<>>
    /\ store \in QueryStores
    /\ response = [op |-> "none"]
    /\ call \in [op : {"query_args"}, user_id : 1..2, semester : QuerySemesters,
                 subject : QuerySubjects, generated : LLMOutputs, ok : BOOLEAN]
    /\ text = <<>>
    /\ chunk_size = chunk_size_default
    /\ chunk_overlap = chunk_overlap_default
    /\ chunks = <<>>
    /\ pc = "start"

\* one call of query(); the dict it returns holds sources as a list
CallQuery ==
    /\ pc = "start"
    /\ LET filter == BuildFilter(call.user_id, call.semester, call.subject)
       IN  \E retrieved \in Retrievals(store, filter, retriever_k) :
              LET r == query(store, filter, retrieved, call.generated, call.ok)
              IN  \E sources \in PyList(r.sources) :
                     call' = IF call.ok
                             THEN [op |-> "query_done", args |-> call, filter |-> filter,
                                   raised |-> r.raised, answer |-> r.answer,
                                   sources |-> sources, retrieved |-> retrieved]
                             ELSE [op |-> "query_done", args |-> call, filter |-> filter,
                                   raised |-> r.raised, answer |-> r.answer,
                                   sources |-> sources]
    /\ pc' = "done"
    /\ UNCHANGED <<users, documents, store, response, text, chunk_size, chunk_overlap,
                   chunks>>

NextQuery == CallQuery

SpecQuery == InitQuery /\ [][NextQuery]_vars

-----------------------------------------------------------------------------
(* Claims about query, under SpecQuery *)

QueryReturned == pc = "done" /\ call.op = "query_done"

\* a call whose try body completed returns the distinct titles of the chunks
\* it retrieved, at most 4 of them, each title once
DistinctTitles ==
    call.args.ok
        => /\ Cardinality(call.retrieved) <= 4
           /\ {call.sources[i] : i \in DOMAIN call.sources}
                 = {store[id].metadata["title"] : id \in call.retrieved}
           /\ \A i, j \in DOMAIN call.sources : i # j => call.sources[i] # call.sources[j]

\* C11 as stated: when no stored chunk matches the filter, query() does not
\* raise and returns a non-empty answer with an empty sources list; the
\* sources it returns are the distinct titles of the at most 4 chunks it
\* retrieved, no title repeated.
C11_AsStated ==
    QueryReturned
        => /\ Matching(store, call.filter) = {}
                 => (~call.raised /\ call.answer # "" /\ call.sources = <<>>)
           /\ DistinctTitles

\* C11 as amended: when no stored chunk matches the filter, query() does not
\* raise and returns an empty sources list with the text the model generated,
\* or with the fixed, non-empty apology when a step failed; the sources it
\* returns are the distinct titles of the at most 4 chunks it retrieved, no
\* title repeated.
C11_NoMatch ==
    QueryReturned
        => /\ Matching(store, call.filter) = {}
                 => /\ ~call.raised
                    /\ call.sources = <<>>
                    /\ call.args.ok => call.answer = call.args.generated
                    /\ ~call.args.ok => (call.answer = FallbackAnswer /\ call.answer # "")
           /\ DistinctTitles

C11_Witness ==
    /\ QueryReturned
    /\ call.args.ok
    /\ store # <<>>
    /\ call.args.subject # None
    /\ Matching(store, call.filter) = {}
    /\ call.sources = <<>>
    /\ call.answer # ""

-----------------------------------------------------------------------------
(* Claims about ingest_document, under SpecIngest *)

Returned == pc = "done" /\ call.op = "ingest_done"

\* the identifier the documentation gives chunk i (0-based) of a call
NamedId(metadata, file_path, i) ==
    Join(<<Str(metadata["user_id"]), Str(metadata["semester"]), metadata["subject"],
           Basename(file_path), Str(i)>>, <<"_">>)

\* C5: within one ingest_document call chunk i (0-based) is given the
\* identifier {user_id}_{semester}_{subject}_{basename of file_path}_{i}, no
\* two chunks of the call share an identifier, all carry the call's metadata
\* record, and all are written to the chunk store by one add_texts call.
C5_BatchIds ==
    (Returned /\ call.result)
        => /\ Len(call.batches) = 1
           /\ LET b == call.batches[1]
                  n == Len(split_text(call.args.content.text,
                                      chunk_size_default, chunk_overlap_default))
              IN  /\ Len(b.ids) = n /\ Len(b.texts) = n /\ Len(b.metadatas) = n
                  /\ \A i \in 1..n :
                        /\ b.ids[i] = NamedId(call.args.metadata, call.args.file_path, i - 1)
                        /\ b.metadatas[i] = call.args.metadata
                        /\ b.ids[i] \in DOMAIN store
                        /\ store[b.ids[i]] = [text |-> b.texts[i],
                                              metadata |-> call.args.metadata]
                  /\ \A i, j \in 1..n : i # j => b.ids[i] # b.ids[j]

C5_Witness ==
    /\ Returned
    /\ call.result
    /\ Len(call.batches[1].ids) >= 2
    /\ call.before # <<>>

\* whether each step of the try body returned: the parser, the identifier
\* of every chunk, the batch write
Completed(args) ==
    /\ args.content.readable
    /\ Words(args.content.text) = <<>> \/ DocIdKeys \subseteq DOMAIN args.metadata
    /\ args.storeOk

\* C9 as stated: ingest_document never raises; it returns True exactly when
\* extraction, chunking and the batch write all completed and False when one
\* of them failed, a metadata record missing a key being such a failure; the
\* Document table is not touched.
C9_AsStated ==
    Returned
        => /\ ~call.raised
           /\ call.result = Completed(call.args)
           /\ ~({"user_id", "semester", "subject", "title"} \subseteq DOMAIN call.args.metadata)
                 => ~call.result
           /\ documents = <<>>

\* C9 as amended: ingest_document never raises; it returns True exactly when
\* extraction, chunking and the batch write all completed and False when one
\* of them failed, a metadata record missing user_id, semester or subject
\* being such a failure when the text yields at least one chunk; the Document
\* table is not touched.
C9_IngestResult ==
    Returned
        => /\ ~call.raised
           /\ call.result = Completed(call.args)
           /\ (/\ call.args.content.readable
               /\ Words(call.args.content.text) # <<>>
               /\ ~(DocIdKeys \subseteq DOMAIN call.args.metadata)) => ~call.result
           /\ documents = <<>>

C9_Witness ==
    /\ Returned
    /\ ~call.result
    /\ call.args.content.readable
    /\ call.args.content.text = ShortText
    /\ call.args.storeOk
    /\ "subject" \notin DOMAIN call.args.metadata

-----------------------------------------------------------------------------
(* Claims about the handlers, under Spec *)

Owner(id) == store[id].metadata["user_id"]
Answered == call.op = "query" /\ call.ok /\ response.op = "chat"

\* C1: every chunk query() retrieves, and so every source title the chat
\* endpoint returns, belongs to the authenticated caller, whatever the chunk
\* store holds and whatever semester, subject and user_id the request carries.
C1_OwnChunksOnly ==
    Answered
        => /\ \A id \in call.retrieved : Owner(id) = response.caller
           /\ call.filter["user_id"] = response.caller
           /\ \A title \in response.body.sources :
                 \E id \in DOMAIN store :
                    Owner(id) = response.caller /\ store[id].metadata["title"] = title

C1_Witness ==
    /\ Answered
    /\ call.retrieved # {}
    /\ call.subject # None
    /\ \E id \in DOMAIN store : Owner(id) # response.caller

\* a step of upload_document that wrote its chunks
Stored == call'.op = "ingest" /\ call'.result /\ Len(documents') = Len(documents) + 1

SameDocument(m1, m2) ==
    /\ m1["title"] = m2["title"]
    /\ m1["semester"] = m2["semester"]
    /\ m1["subject"] = m2["subject"]

\* C6: when two users upload a file with the same filename, semester and
\* subject, no chunk identifier made for one is a chunk identifier made for
\* the other, and a later query by either retrieves no chunk of the other.
C6_NoCrossUserIds ==
    /\ [][Stored =>
            \A i \in DOMAIN call'.ids :
                (/\ call'.ids[i] \in DOMAIN store
                 /\ SameDocument(store[call'.ids[i]].metadata, call'.metadata))
                    => Owner(call'.ids[i]) = call'.metadata["user_id"]]_vars
    /\ [](Answered =>
            \A id \in call.retrieved :
                \A other \in {users[u].id : u \in DOMAIN users} \ {response.caller} :
                    Owner(id) # other)

C6_Witness ==
    /\ Answered
    /\ call.retrieved # {}
    /\ \E id1, id2 \in DOMAIN store :
          /\ Owner(id1) = response.caller
          /\ Owner(id2) # response.caller
          /\ SameDocument(store[id1].metadata, store[id2].metadata)

\* C7: the filter query() builds always holds user_id; it holds semester
\* exactly when the semester argument is neither None nor 0 and subject
\* exactly when the subject argument is neither None nor the empty string.
C7_Filter ==
    Answered
        => /\ "user_id" \in DOMAIN call.filter
           /\ call.filter["user_id"] = response.caller
           /\ DOMAIN call.filter \subseteq {"user_id", "semester", "subject"}
           /\ ("semester" \in DOMAIN call.filter)
                 <=> (call.semester # None /\ call.semester # Some(0))
           /\ ("subject" \in DOMAIN call.filter)
                 <=> (call.subject # None /\ call.subject # Some(<<>>))
           /\ "semester" \in DOMAIN call.filter => call.filter["semester"] = call.semester[1]
           /\ "subject" \in DOMAIN call.filter => call.filter["subject"] = call.subject[1]
           /\ (call.semester = None /\ call.subject = None)
                 => call.filter = [k \in {"user_id"} |-> response.caller]

C7_Witness ==
    /\ Answered
    /\ call.semester = Some(0)
    /\ call.subject = Some(<<>>)
    /\ DOMAIN call.filter = {"user_id"}
    /\ Cardinality({store[id].metadata["subject"] : id \in call.retrieved}) = 2

\* C8: query() never raises; when a step of it fails the answer is the fixed
\* apology with no sources, and the chunk store is left as it was.
C8_Fallback ==
    [][(call'.op = "query" /\ ~call'.ok)
          => /\ ~call'.raised
             /\ response'.status = 200
             /\ response'.body = [answer |-> FallbackAnswer, sources |-> {}]
             /\ store' = store]_vars

C8_Witness ==
    /\ call.op = "query"
    /\ ~call.ok
    /\ response.body.sources = {}
    /\ store # <<>>

C15_DuplicateRejected ==
    /\ [][(/\ response'.op = "create_user"
           /\ \E i \in DOMAIN users : users[i].username = response'.request.username)
              => /\ response'.status = 400
                 /\ response'.detail = "Username already registered"
                 /\ users' = users]_vars
    /\ [](\A i, j \in DOMAIN users : i # j => users[i].username # users[j].username)

\* C13: after a successful upload every chunk the store holds under the
\* identifiers {owner}_{semester}_{subject}_{basename}_{n} of the uploaded
\* file was written by that upload: no chunk of an earlier version of the
\* file remains, also when the new version has fewer chunks than the old one.
C13_NoStaleChunk ==
    (call.op = "ingest" /\ call.result)
        => \A id \in DOMAIN store :
              (\E n \in 0..Cardinality(DOMAIN store) :
                    id = DocId(call.metadata, call.file_path, n))
                  => \E i \in DOMAIN call.ids : call.ids[i] = id

-----------------------------------------------------------------------------
(* Claims about uploads of one user, under SpecUploads *)

\* C12: when one user's upload differs from an earlier upload of that user in
\* semester, subject or filename, none of its chunk identifiers is the
\* identifier of a chunk of that earlier upload, so it overwrites no chunk of
\* a different document.
C12_NoSameUserCollision ==
    [][Stored =>
          \A i \in DOMAIN call'.ids :
              (/\ call'.ids[i] \in DOMAIN store
               /\ Owner(call'.ids[i]) = call'.metadata["user_id"])
                  => SameDocument(store[call'.ids[i]].metadata, call'.metadata)]_vars

====
